---- MODULE Spec2Model ----
(***************************************************************************)
(* NmapXmlToJson.py: parse_nmap_xml walks the hosts and ports of a parsed  *)
(* Nmap XML document, applies the port status filter and appends one flat  *)
(* record per retained port; main serialises the list and writes it.       *)
(*                                                                         *)
(* Strings are sequences of one-character strings, so that upper() and     *)
(* " ".join() are computed.  An optional XML attribute or child element is *)
(* None (absent) or Some(v); Element.find() returns the first child with   *)
(* the tag, so an element holds at most the first child the code reads.    *)
(* A dict is a function on its key set.                                    *)
(***************************************************************************)
EXTENDS Integers, Sequences, FiniteSets, TLC

VARIABLES doc, port_status_filter, pc, h, p, ip_address, hostname, results,
          src, json_output, stdout, stderr, outfile, exitCode, prev

vars == <<doc, port_status_filter, pc, h, p, ip_address, hostname, results,
          src, json_output, stdout, stderr, outfile, exitCode, prev>>

----------------------------------------------------------------------------
(* Bounds of the explored documents *)
MaxAddrs == 2
MaxHosts == 2
MaxPorts == 2
MaxScripts == 2

----------------------------------------------------------------------------
(* Values *)
None == <<>>
Some(v) == <<v>>

EmptyStr == <<>>
all == <<"a", "l", "l">>
open == <<"o", "p", "e", "n">>
closed == <<"c", "l", "o", "s", "e", "d">>
filtered == <<"f", "i", "l", "t", "e", "r", "e", "d">>
ipv4 == <<"i", "p", "v", "4">>
ipv6 == <<"i", "p", "v", "6">>
space == <<" ">>
slash == <<"/">>

StatusChoices == {all, open, closed, filtered}

ServiceAttrs == {"product", "version", "extrainfo", "method", "conf"}

SeqsUpTo(S, n) == UNION {[1..k -> S] : k \in 0..n}

----------------------------------------------------------------------------
(* Library functions, by what they do *)

\* Element.get(key, default)
get(a, default) == IF a = None THEN default ELSE a[1]

\* Python truthiness of Element.get(key): neither None nor ""
truthy(a) == a # None /\ a[1] # EmptyStr

upper_char(c) ==
    CASE c = "t" -> "T"
      [] c = "c" -> "C"
      [] c = "p" -> "P"
      [] c = "u" -> "U"
      [] c = "d" -> "D"
      [] OTHER -> c

\* str.upper()
upper(s) == [i \in 1..Len(s) |-> upper_char(s[i])]

RECURSIVE join(_, _)
\* sep.join(list)
join(sep, list) ==
    IF list = <<>> THEN EmptyStr
    ELSE IF Len(list) = 1 THEN list[1]
    ELSE list[1] \o sep \o join(sep, Tail(list))

\* json.dumps(results, indent=2): the encoded array of objects
json_dumps(rs) == <<"json", rs>>

----------------------------------------------------------------------------
(* Elements of the parsed document *)
Address(addrtype, addr) == [addrtype |-> addrtype, addr |-> addr]

Hostnames(hostname_elem) == [hostname |-> hostname_elem]

Hostname(name) == [name |-> name]

Host(addresses, hostnames, ports) ==
    [address |-> addresses, hostnames |-> hostnames, ports |-> ports]

State(state) == [state |-> state]

Service(name, product, version, extrainfo, method, conf) ==
    [name |-> name, product |-> product, version |-> version,
     extrainfo |-> extrainfo, method |-> method, conf |-> conf]

Script(id, output) == [id |-> id, output |-> output]

Port(portid, protocol, state, service, scripts) ==
    [portid |-> portid, protocol |-> protocol, state |-> state,
     service |-> service, script |-> scripts]

EmptyDict == [k \in {} |-> EmptyStr]

----------------------------------------------------------------------------
(* parse_nmap_xml, the per-element computations *)

\* variant: the addrtype test is dropped, the first address is taken
find_ip_any_type(addresses) ==
    IF addresses = <<>> THEN None
    ELSE Head(addresses).addr

RECURSIVE find_ip_no_break(_)
\* variant: no break, the last ipv4 address wins
find_ip_no_break(addresses) ==
    IF addresses = <<>> THEN None
    ELSE LET rest == find_ip_no_break(Tail(addresses))
         IN IF Head(addresses).addrtype = Some(ipv4)
               /\ ~\E j \in DOMAIN Tail(addresses) :
                      Tail(addresses)[j].addrtype = Some(ipv4)
            THEN Head(addresses).addr
            ELSE rest

RECURSIVE find_ip(_)
\* for address in host.findall("address"): first ipv4, then break
find_ip(addresses) ==
    IF addresses = <<>> THEN None
    ELSE IF Head(addresses).addrtype = Some(ipv4) THEN Head(addresses).addr
    ELSE find_ip(Tail(addresses))

\* hostname = "" unless hostnames/hostname exist; then get("name", "")
find_hostname(host) ==
    IF host.hostnames = None THEN EmptyStr
    ELSE IF host.hostnames[1].hostname = None THEN EmptyStr
    ELSE get(host.hostnames[1].hostname[1].name, EmptyStr)

\* port_state = state.get("state", "") if state is not None else ""
port_state_of(port) ==
    IF port.state = None THEN EmptyStr ELSE get(port.state[1].state, EmptyStr)

\* variant: a port without a state passes every filter
filtered_out_unless_stateless(filter, port_state) ==
    filter # all /\ port_state # EmptyStr /\ port_state # filter

\* variant: "all" is compared like any other status
filtered_out_no_all(filter, port_state) == port_state # filter

\* if port_status_filter != "all" and port_state != port_status_filter: continue
filtered_out(filter, port_state) == filter # all /\ port_state # filter

service_name_of(port) ==
    IF port.service = None THEN EmptyStr ELSE get(port.service[1].name, EmptyStr)

\* variant: "is not None" instead of truthiness
keep_attr_present(value) == value # None

\* if service.get(attr): service_details[attr] = service.get(attr)
keep_attr(value) == truthy(value)

\* variant: product + " " + version, whichever is missing
combined_info_of_concat(product, version) ==
    get(product, EmptyStr) \o space \o get(version, EmptyStr)

\* combined = [product if product] + [version if version]; " ".join(combined)
combined_info_of(product, version) ==
    join(space, (IF truthy(product) THEN <<product[1]>> ELSE <<>>)
                \o (IF truthy(version) THEN <<version[1]>> ELSE <<>>))

service_details_of(port) ==
    IF port.service = None THEN EmptyDict
    ELSE LET service == port.service[1]
             product == service["product"]
             version == service["version"]
             kept == {attr \in ServiceAttrs : keep_attr(service[attr])}
             keys == kept \cup (IF truthy(product) \/ truthy(version)
                                THEN {"combined_info"} ELSE {})
         IN [k \in keys |-> IF k = "combined_info"
                            THEN combined_info_of(product, version)
                            ELSE service[k][1]]

\* variant: the id test is dropped
has_id_always(script_id) == TRUE

\* if script_id:
has_id(script_id) == script_id # EmptyStr

RECURSIVE script_output_of(_)
\* for script in scripts: script_output[script_id] = script.get("output", "")
script_output_of(scripts) ==
    IF scripts = <<>> THEN EmptyDict
    ELSE LET before == script_output_of(SubSeq(scripts, 1, Len(scripts) - 1))
             script == scripts[Len(scripts)]
             script_id == get(script.id, EmptyStr)
         IN IF has_id(script_id)
            THEN [k \in DOMAIN before \cup {script_id} |->
                    IF k = script_id THEN get(script.output, EmptyStr)
                    ELSE before[k]]
            ELSE before

\* record = {...}; optional detailed_service_info and script_output
make_record(hn, ip, port) ==
    LET base == [fqdn |-> hn,
                 ip |-> ip,
                 port |-> upper(get(port.protocol, EmptyStr)) \o slash
                          \o get(port.portid, EmptyStr),
                 port_status |-> port_state_of(port),
                 service |-> service_name_of(port)]
        service_details == service_details_of(port)
        with_details == IF DOMAIN service_details # {}
                        THEN base @@ ("detailed_service_info" :> service_details)
                        ELSE base
        script_output == script_output_of(port.script)
    IN IF port.script # <<>> /\ DOMAIN script_output # {}
       THEN with_details @@ ("script_output" :> script_output)
       ELSE with_details

----------------------------------------------------------------------------
(* The documents explored: one family per dimension of the input *)
tcp == <<"t", "c", "p">>
udp == <<"u", "d", "p">>
IpA == <<"1">>
IpB == <<"2">>
Ip6 == <<":", ":", "1">>
web1 == <<"w", "e", "b", "1">>
http == <<"h", "t", "t", "p">>
nginx == <<"n", "g", "i", "n", "x">>

StateOf(s) == Some(State(Some(s)))

PortOpen == Port(Some(<<"8", "0">>), Some(tcp), StateOf(open), None, <<>>)
PortClosed == Port(Some(<<"2", "2">>), Some(tcp), StateOf(closed), None, <<>>)

WebHostnames == Some(Hostnames(Some(Hostname(Some(web1)))))

WellFormed(hosts) == [wellformed |-> TRUE, hosts |-> hosts]
Malformed == [wellformed |-> FALSE, hosts |-> <<>>]

AddressSet ==
    {Address(Some(ipv4), Some(IpA)), Address(Some(ipv4), Some(IpB)),
     Address(Some(ipv4), Some(EmptyStr)), Address(Some(ipv4), None),
     Address(Some(ipv6), Some(Ip6)), Address(None, Some(IpA))}

AddressDocs ==
    {WellFormed(<<Host(as, WebHostnames, Some(<<PortOpen, PortClosed>>))>>) :
        as \in SeqsUpTo(AddressSet, MaxAddrs)}

HostnamesSet ==
    {None, Some(Hostnames(None)), Some(Hostnames(Some(Hostname(None)))),
     Some(Hostnames(Some(Hostname(Some(EmptyStr)))))}

HostnameDocs ==
    {WellFormed(<<Host(<<Address(Some(ipv4), Some(IpA))>>, hn, Some(<<PortOpen>>))>>) :
        hn \in HostnamesSet}

PortSet ==
    {Port(Some(<<"8", "0">>), Some(tcp), st, None, <<>>) :
        st \in {None, Some(State(None)), StateOf(EmptyStr), StateOf(open),
                StateOf(closed), StateOf(filtered)}}
    \cup {Port(None, None, StateOf(open), None, <<>>),
          Port(Some(<<"5", "3">>), Some(udp), StateOf(closed), None, <<>>)}

PortDocs ==
    {WellFormed(<<Host(<<Address(Some(ipv4), Some(IpA))>>, None, Some(ps))>>) :
        ps \in SeqsUpTo(PortSet, MaxPorts)}

HostSet ==
    {Host(<<Address(Some(ipv4), Some(IpA))>>, None, Some(<<PortOpen, PortClosed>>)),
     Host(<<Address(Some(ipv4), Some(IpA))>>, None, Some(<<PortOpen, PortOpen>>)),
     Host(<<Address(Some(ipv4), Some(IpB))>>, WebHostnames, Some(<<PortClosed, PortOpen>>)),
     Host(<<Address(Some(ipv6), Some(Ip6))>>, None, Some(<<PortOpen, PortClosed>>)),
     Host(<<Address(Some(ipv4), Some(IpA))>>, None, None),
     Host(<<Address(Some(ipv4), Some(IpB))>>, None, Some(<<>>))}

HostDocs == {WellFormed(hosts) : hosts \in SeqsUpTo(HostSet, MaxHosts)}

ServiceSet ==
    {Service(name, product, version, extrainfo, method, conf) :
        name \in {None, Some(http)},
        product \in {None, Some(EmptyStr), Some(nginx)},
        version \in {None, Some(EmptyStr), Some(<<"1", ".", "1", "8">>)},
        extrainfo \in {None, Some(EmptyStr), Some(<<"x">>)},
        method \in {None, Some(<<"p", "r", "o", "b", "e", "d">>)},
        conf \in {None, Some(<<"1", "0">>)}}

ServiceDocs ==
    {WellFormed(<<Host(<<Address(Some(ipv4), Some(IpA))>>, WebHostnames,
                       Some(<<Port(Some(<<"8", "0">>), Some(tcp), StateOf(open), sv, <<>>)>>))>>) :
        sv \in {None} \cup {Some(service) : service \in ServiceSet}}

ScriptSet ==
    {Script(id, output) :
        id \in {None, Some(EmptyStr), Some(<<"s">>), Some(<<"t">>)},
        output \in {None, Some(<<"o">>)}}
    \cup {Script(Some(<<"s">>), Some(<<"q">>))}

ScriptDocs ==
    {WellFormed(<<Host(<<Address(Some(ipv4), Some(IpA))>>, None,
                       Some(<<Port(Some(<<"8", "0">>), Some(tcp), StateOf(open), None, scripts)>>))>>) :
        scripts \in SeqsUpTo(ScriptSet, MaxScripts)}

Docs ==
    {Malformed} \cup AddressDocs \cup HostnameDocs \cup PortDocs \cup HostDocs
    \cup ServiceDocs \cup ScriptDocs

----------------------------------------------------------------------------
(* State *)
Untouched == <<"untouched">>
Truncated == <<"truncated">>
Written(text) == <<"written", text>>

Init ==
    /\ doc \in Docs
    /\ port_status_filter = all
    /\ pc = "init"
    /\ h = 1
    /\ p = 1
    /\ ip_address = None
    /\ hostname = EmptyStr
    /\ results = <<>>
    /\ src = <<>>
    /\ json_output = None
    /\ stdout = <<>>
    /\ stderr = <<>>
    /\ outfile = Untouched
    /\ exitCode = 0
    /\ prev = None

host == doc.hosts[h]
port == host.ports[1][p]

\* the run before this one, when parse_nmap_xml returned in it
LastRun ==
    IF pc = "exit" /\ json_output # None
    THEN Some([filter |-> port_status_filter, results |-> results])
    ELSE None

\* a run of the script: args = parser.parse_args()
Start ==
    /\ pc \in {"init", "exit"}
    /\ \E status \in StatusChoices : port_status_filter' = status
    /\ prev' = LastRun
    /\ pc' = "parse"
    /\ h' = 1
    /\ p' = 1
    /\ ip_address' = None
    /\ hostname' = EmptyStr
    /\ results' = <<>>
    /\ src' = <<>>
    /\ json_output' = None
    /\ stdout' = <<>>
    /\ stderr' = <<>>
    /\ outfile' = Untouched
    /\ exitCode' = 0
    /\ UNCHANGED doc

\* variant: results is not a fresh list, it persists from the previous call
ParseOk_persistent_results ==
    /\ pc = "parse"
    /\ doc.wellformed
    /\ results' = IF prev = None THEN <<>> ELSE prev[1].results
    /\ src' = <<>>
    /\ h' = 1
    /\ pc' = "hosts"
    /\ UNCHANGED <<doc, port_status_filter, p, ip_address, hostname,
                   json_output, stdout, stderr, outfile, exitCode, prev>>

\* tree = ET.parse(xml_file); root = tree.getroot(); results = []
ParseOk ==
    /\ pc = "parse"
    /\ doc.wellformed
    /\ results' = <<>>
    /\ src' = <<>>
    /\ h' = 1
    /\ pc' = "hosts"
    /\ UNCHANGED <<doc, port_status_filter, p, ip_address, hostname,
                   json_output, stdout, stderr, outfile, exitCode, prev>>

\* variant: the error is reported and an empty result is processed
ParseFail_return_empty ==
    /\ pc = "parse"
    /\ ~doc.wellformed
    /\ stderr' = Append(stderr, "Error parsing XML file")
    /\ results' = <<>>
    /\ src' = <<>>
    /\ h' = 1
    /\ pc' = "hosts"
    /\ UNCHANGED <<doc, port_status_filter, p, ip_address, hostname,
                   json_output, stdout, outfile, exitCode, prev>>

\* except Exception: print(..., file=sys.stderr); sys.exit(1)
ParseFail ==
    /\ pc = "parse"
    /\ ~doc.wellformed
    /\ stderr' = Append(stderr, "Error parsing XML file")
    /\ exitCode' = 1
    /\ pc' = "exit"
    /\ UNCHANGED <<doc, port_status_filter, h, p, ip_address, hostname,
                   results, src, json_output, stdout, outfile, prev>>

\* if not ip_address: continue
SkipHostNoIp ==
    /\ pc = "hosts"
    /\ h <= Len(doc.hosts)
    /\ ~truthy(find_ip(host.address))
    /\ ip_address' = find_ip(host.address)
    /\ h' = h + 1
    /\ UNCHANGED <<doc, port_status_filter, pc, p, hostname, results, src,
                   json_output, stdout, stderr, outfile, exitCode, prev>>

\* if ports is None: continue
SkipHostNoPorts ==
    /\ pc = "hosts"
    /\ h <= Len(doc.hosts)
    /\ truthy(find_ip(host.address))
    /\ host.ports = None
    /\ ip_address' = find_ip(host.address)
    /\ hostname' = find_hostname(host)
    /\ h' = h + 1
    /\ UNCHANGED <<doc, port_status_filter, pc, p, results, src,
                   json_output, stdout, stderr, outfile, exitCode, prev>>

\* the host has an address and a ports child: start ports.findall("port")
EnterHost ==
    /\ pc = "hosts"
    /\ h <= Len(doc.hosts)
    /\ truthy(find_ip(host.address))
    /\ host.ports # None
    /\ ip_address' = find_ip(host.address)
    /\ hostname' = find_hostname(host)
    /\ p' = 1
    /\ pc' = "ports"
    /\ UNCHANGED <<doc, port_status_filter, h, results, src,
                   json_output, stdout, stderr, outfile, exitCode, prev>>

\* the port does not match the filter: continue
SkipPort ==
    /\ pc = "ports"
    /\ p <= Len(host.ports[1])
    /\ filtered_out(port_status_filter, port_state_of(port))
    /\ p' = p + 1
    /\ UNCHANGED <<doc, port_status_filter, pc, h, ip_address, hostname,
                   results, src, json_output, stdout, stderr, outfile,
                   exitCode, prev>>

\* variant: a record equal to one already in results is not appended
EmitPort_dedup ==
    /\ pc = "ports"
    /\ p <= Len(host.ports[1])
    /\ ~filtered_out(port_status_filter, port_state_of(port))
    /\ LET record == make_record(hostname, ip_address[1], port)
           seen == \E i \in DOMAIN results : results[i] = record
       IN /\ results' = IF seen THEN results ELSE Append(results, record)
          /\ src' = IF seen THEN src ELSE Append(src, <<h, p>>)
    /\ p' = p + 1
    /\ UNCHANGED <<doc, port_status_filter, pc, h, ip_address, hostname,
                   json_output, stdout, stderr, outfile, exitCode, prev>>

\* results.append(record)
EmitPort ==
    /\ pc = "ports"
    /\ p <= Len(host.ports[1])
    /\ ~filtered_out(port_status_filter, port_state_of(port))
    /\ results' = Append(results, make_record(hostname, ip_address[1], port))
    /\ src' = Append(src, <<h, p>>)
    /\ p' = p + 1
    /\ UNCHANGED <<doc, port_status_filter, pc, h, ip_address, hostname,
                   json_output, stdout, stderr, outfile, exitCode, prev>>

\* the port loop of this host is exhausted
EndPorts ==
    /\ pc = "ports"
    /\ p > Len(host.ports[1])
    /\ h' = h + 1
    /\ pc' = "hosts"
    /\ UNCHANGED <<doc, port_status_filter, p, ip_address, hostname, results,
                   src, json_output, stdout, stderr, outfile, exitCode, prev>>

\* return results; json_output = json.dumps(results, indent=2)
Return ==
    /\ pc = "hosts"
    /\ h > Len(doc.hosts)
    /\ json_output' = Some(json_dumps(results))
    /\ pc' = "output"
    /\ UNCHANGED <<doc, port_status_filter, h, p, ip_address, hostname,
                   results, src, stdout, stderr, outfile, exitCode, prev>>

\* args.output given: f.write(json_output); print("Results written to ...")
WriteFileOk ==
    /\ pc = "output"
    /\ outfile' = Written(json_output[1])
    /\ stdout' = Append(stdout, "Results written to")
    /\ exitCode' = 0
    /\ pc' = "exit"
    /\ UNCHANGED <<doc, port_status_filter, h, p, ip_address, hostname,
                   results, src, json_output, stderr, prev>>

\* args.output given and open() or write() raises: sys.exit(1)
WriteFileFail ==
    /\ pc = "output"
    /\ outfile' \in {Untouched, Truncated}
    /\ stderr' = Append(stderr, "Error writing to output file")
    /\ exitCode' = 1
    /\ pc' = "exit"
    /\ UNCHANGED <<doc, port_status_filter, h, p, ip_address, hostname,
                   results, src, json_output, stdout, prev>>

\* no args.output: print(json_output)
PrintOk ==
    /\ pc = "output"
    /\ stdout' = Append(stdout, json_output[1])
    /\ exitCode' = 0
    /\ pc' = "exit"
    /\ UNCHANGED <<doc, port_status_filter, h, p, ip_address, hostname,
                   results, src, json_output, stderr, outfile, prev>>

\* no args.output and print raises: the exception ends the interpreter
PrintFail ==
    /\ pc = "output"
    /\ stderr' = Append(stderr, "Traceback")
    /\ exitCode' = 1
    /\ pc' = "exit"
    /\ UNCHANGED <<doc, port_status_filter, h, p, ip_address, hostname,
                   results, src, json_output, stdout, outfile, prev>>

Next ==
    \/ Start
    \/ ParseOk
    \/ ParseFail
    \/ SkipHostNoIp
    \/ SkipHostNoPorts
    \/ EnterHost
    \/ SkipPort
    \/ EmitPort
    \/ EndPorts
    \/ Return
    \/ WriteFileOk
    \/ WriteFileFail
    \/ PrintOk
    \/ PrintFail

Spec == Init /\ [][Next]_vars

----------------------------------------------------------------------------
(* Properties.  src[i] is the position <<host index, port index>> of the   *)
(* port results[i] was built from.                                          *)

HostAt(i) == doc.hosts[src[i][1]]
PortAt(i) == HostAt(i).ports[1][src[i][2]]

\* parse_nmap_xml has returned in the current run
Returned == json_output # None

NonEmptyAttr(a) == a # None /\ a[1] # <<>>

Ipv4Indexes(hst) ==
    {j \in DOMAIN hst.address : hst.address[j].addrtype = Some(ipv4)}

HasIpv4(hst) == Ipv4Indexes(hst) # {}

FirstIpv4(hst) ==
    hst.address[CHOOSE j \in Ipv4Indexes(hst) : \A k \in Ipv4Indexes(hst) : j <= k]

StateAttr(pt) ==
    IF pt.state # None /\ pt.state[1].state # None THEN pt.state[1].state[1]
    ELSE <<>>

PassesFilter(pt) ==
    port_status_filter = all \/ StateAttr(pt) = port_status_filter

LexLess(a, b) == a[1] < b[1] \/ (a[1] = b[1] /\ a[2] < b[2])

Emitted(k, q) == \E i \in DOMAIN src : src[i] = <<k, q>>

\* C1: under a filter other than "all" every record's port_status equals the
\* filter, and no record comes from a port whose state element or state
\* attribute is missing.
C1_FilterStatus ==
    port_status_filter # all =>
        \A i \in DOMAIN results :
            /\ results[i].port_status = port_status_filter
            /\ PortAt(i).state # None
            /\ PortAt(i).state[1].state # None

C1_Witness ==
    /\ Returned
    /\ port_status_filter = open
    /\ results # <<>>
    /\ \E q \in DOMAIN doc.hosts[1].ports[1] : doc.hosts[1].ports[1][q].state = None

\* C2: a host without an address child of addrtype "ipv4" contributes no
\* record, whatever its ports and whatever the filter.
C2_NoIpv4NoRecord ==
    /\ \A i \in DOMAIN src : HasIpv4(HostAt(i))
    /\ (\A k \in DOMAIN doc.hosts : ~HasIpv4(doc.hosts[k])) => results = <<>>

C2_Witness ==
    /\ Returned
    /\ port_status_filter = all
    /\ Len(doc.hosts) = 2
    /\ ~HasIpv4(doc.hosts[1])
    /\ doc.hosts[1].address # <<>>
    /\ doc.hosts[1].ports # None
    /\ doc.hosts[1].ports[1] # <<>>
    /\ results # <<>>

\* C3: every record's ip is non-empty and is the addr of the first ipv4
\* address of its host; a later ipv4 address is never used.
C3_FirstIpv4 ==
    \A i \in DOMAIN results :
        /\ results[i].ip # <<>>
        /\ HasIpv4(HostAt(i))
        /\ FirstIpv4(HostAt(i)).addr = Some(results[i].ip)

C3_Witness ==
    /\ Returned
    /\ results # <<>>
    /\ Cardinality(Ipv4Indexes(doc.hosts[1])) = 2
    /\ doc.hosts[1].address[1].addr # doc.hosts[1].address[2].addr
    /\ NonEmptyAttr(doc.hosts[1].address[2].addr)

\* C4: detailed_service_info is present iff the port's service has a
\* non-empty attribute among product, version, extrainfo, method, conf; it
\* then holds exactly those attributes (and possibly combined_info) and is
\* never empty.
C4_DetailedServiceInfo ==
    \A i \in DOMAIN results :
        LET r == results[i]
            sv == PortAt(i).service
            nonempty == IF sv = None THEN {}
                        ELSE {a \in ServiceAttrs : NonEmptyAttr(sv[1][a])}
        IN /\ ("detailed_service_info" \in DOMAIN r) <=> (nonempty # {})
           /\ "detailed_service_info" \in DOMAIN r =>
                /\ DOMAIN r.detailed_service_info # {}
                /\ DOMAIN r.detailed_service_info \ {"combined_info"} = nonempty
                /\ \A a \in nonempty : r.detailed_service_info[a] = sv[1][a][1]

C4_Witness ==
    /\ Returned
    /\ Len(results) = 1
    /\ "detailed_service_info" \in DOMAIN results[1]
    /\ DOMAIN results[1].detailed_service_info = {"extrainfo", "conf"}
    /\ PortAt(1).service[1].product = Some(<<>>)

C6_ScriptOutput ==
    \A i \in DOMAIN results :
        LET r == results[i]
            scripts == PortAt(i).script
            idOf(j) == IF scripts[j].id = None THEN <<>> ELSE scripts[j].id[1]
            ids == {idOf(j) : j \in DOMAIN scripts} \ {<<>>}
            last(k) == CHOOSE j \in DOMAIN scripts :
                          /\ idOf(j) = k
                          /\ \A m \in DOMAIN scripts : idOf(m) = k => m <= j
        IN /\ ("script_output" \in DOMAIN r) <=> (ids # {})
           /\ "script_output" \in DOMAIN r =>
                /\ DOMAIN r.script_output = ids
                /\ \A k \in ids :
                      r.script_output[k] =
                          IF scripts[last(k)].output = None THEN <<>>
                          ELSE scripts[last(k)].output[1]

C6_Witness ==
    /\ Returned
    /\ Len(results) = 1
    /\ "script_output" \in DOMAIN results[1]
    /\ Len(PortAt(1).script) = 2
    /\ PortAt(1).script[1].id = Some(<<>>)
    /\ PortAt(1).script[2].output = None

\* C7: the records are in document order (hosts, then ports of a host) and
\* none is dropped, merged or deduplicated: every port that passes the filter
\* on a host that is processed has its own record.
C7_DocumentOrder ==
    /\ Len(src) = Len(results)
    /\ \A i, j \in DOMAIN src : i < j => LexLess(src[i], src[j])
    /\ \A i \in DOMAIN results :
          /\ results[i].port_status = StateAttr(PortAt(i))
          /\ FirstIpv4(HostAt(i)).addr = Some(results[i].ip)
    /\ Returned =>
          \A k \in DOMAIN doc.hosts :
              LET hst == doc.hosts[k]
              IN (HasIpv4(hst) /\ NonEmptyAttr(FirstIpv4(hst).addr) /\ hst.ports # None) =>
                    \A q \in DOMAIN hst.ports[1] :
                        PassesFilter(hst.ports[1][q]) => Emitted(k, q)

C7_Witness ==
    /\ Returned
    /\ Len(results) = 4
    /\ results[1] = results[2]
    /\ results[3] = results[1]
    /\ src[3][1] = 2

\* C8: an input that cannot be parsed ends the run with a non-zero exit status
\* and nothing written; when parsing and writing succeed the exit status is 0.
OutputWritten ==
    /\ json_output # None
    /\ \/ outfile = Written(json_output[1])
       \/ stdout = <<json_output[1]>>

C8_ExitStatus ==
    /\ (pc # "init" /\ ~doc.wellformed) =>
          /\ results = <<>>
          /\ json_output = None
          /\ stdout = <<>>
          /\ outfile = Untouched
          /\ pc = "exit" => exitCode # 0
    /\ (pc = "exit" /\ doc.wellformed /\ OutputWritten) => exitCode = 0

C8_Witness ==
    /\ pc = "exit"
    /\ ~doc.wellformed
    /\ exitCode = 1
    /\ stderr # <<>>

RECURSIVE WithStatus(_, _)
WithStatus(rs, status) ==
    IF rs = <<>> THEN <<>>
    ELSE IF Head(rs).port_status = status
         THEN <<Head(rs)>> \o WithStatus(Tail(rs), status)
         ELSE WithStatus(Tail(rs), status)

FilterOnlyRemoves ==
    (Returned /\ prev # None /\ prev[1].filter = all /\ port_status_filter # all)
        => results = WithStatus(prev[1].results, port_status_filter)

\* C10 as stated: the result under f is the subsequence of the result under
\* "all" with port_status f, and every port passing the filter on a host with
\* an ipv4 address is emitted.
C10_Original ==
    /\ FilterOnlyRemoves
    /\ Returned =>
          \A k \in DOMAIN doc.hosts :
              LET hst == doc.hosts[k]
              IN (HasIpv4(hst) /\ hst.ports # None) =>
                    \A q \in DOMAIN hst.ports[1] :
                        PassesFilter(hst.ports[1][q]) => Emitted(k, q)

\* C10 amended: the result under f is the subsequence of the result under
\* "all" with port_status f, and every port passing the filter on a host whose
\* first ipv4 address has a non-empty addr is emitted; the ports of a host
\* whose first ipv4 address has no addr, or an empty one, are not.
C10_FilterSubsequence ==
    /\ FilterOnlyRemoves
    /\ Returned =>
          \A k \in DOMAIN doc.hosts :
              LET hst == doc.hosts[k]
              IN (HasIpv4(hst) /\ hst.ports # None) =>
                    \A q \in DOMAIN hst.ports[1] :
                        Emitted(k, q) <=>
                            /\ PassesFilter(hst.ports[1][q])
                            /\ NonEmptyAttr(FirstIpv4(hst).addr)

C10_Witness ==
    /\ Returned
    /\ prev # None
    /\ prev[1].filter = all
    /\ port_status_filter = closed
    /\ Len(results) = 2
    /\ Len(prev[1].results) = 4

====
